---------------------------- MODULE Spec2Model ----------------------------
(***************************************************************************)
(* Model of the two digest scripts news_digest.py and tech_deepdive.py.    *)
(* Each script is one top-to-bottom run: take the generated text, clean it *)
(* (Formatter), split it into chunks of at most max_length characters      *)
(* (Chunker), wrap the chunks into Slack blocks between a preamble and a   *)
(* footer (Assembler), cap the block list at 50, and POST it.              *)
(*                                                                         *)
(* A text is a sequence of code points; a code point is a one-token        *)
(* string.  The flag emoji of news_digest.py are two code points each, and *)
(* two of the emoji of tech_deepdive.py carry a variation selector, as in  *)
(* the source files.                                                       *)
(*                                                                         *)
(* The scripts fix max_length at 2800.  The chunking loop is parametric in *)
(* that limit, so the model keeps it in the variable max_length and runs   *)
(* the same loop for every limit in 1..MaxLimit on texts of matching size. *)
(***************************************************************************)
EXTENDS Integers, Sequences, FiniteSets, TLC

VARIABLES
    script,         \* "news" (news_digest.py) or "tech" (tech_deepdive.py)
    max_length,     \* max_length / max_len: the chunk limit L
    response_text,  \* response.text of the generation call
    digest_text,    \* digest_text
    digest_blocks,  \* news_digest.py: digest_blocks
    blocks,         \* blocks
    posted,         \* the "blocks" of the payload handed to the primary POST
    pc,             \* position of the run in the script
    attempt,        \* tech_deepdive.py: attempt, the index of the retry loop
    calls,          \* the generate_content calls made so far, in order
    posts,          \* the requests.post calls made so far, in order
    exc             \* the exception in flight, "none" if there is none

\* the state of the exchanges with the model and with Slack
protocol == <<attempt, calls, posts, exc>>

vars == <<script, max_length, response_text, digest_text, digest_blocks,
          blocks, posted, pc, attempt, calls, posts, exc>>

-----------------------------------------------------------------------------
(* Bounds of the model *)

\* largest chunk limit tried
MaxLimit == 7
\* most lines of a line-built response
MaxLines == 2
\* longest run of '#' and '-' characters in a noise response
MaxNoise == 5
\* most paragraphs of a paragraph-built response
MaxParas == 3
\* most one-letter paragraphs of a long response
MaxLong == 25

-----------------------------------------------------------------------------
(* Code points *)

NL == "\n"
SP == " "
STAR == "*"
HASH == "#"
DASH == "-"
BUL == "BULLET"
VS16 == "VS16"

Whitespace == {SP, NL}

\* the paragraph separator '\n\n'
Sep == <<NL, NL>>

\* news_digest.py: ['🇺🇸', '🇮🇳', '🌏', '💰', '🚀', '🎯']
NewsEmoji ==
    { <<"RI_U", "RI_S">>, <<"RI_I", "RI_N">>, <<"EARTH">>, <<"MONEYBAG">>,
      <<"ROCKET">>, <<"TARGET">> }

\* tech_deepdive.py: section_emoji = ['🔬', '🛠️', '💡', '🖥️', '📚', '🔧']
section_emoji ==
    { <<"MICROSCOPE">>, <<"TOOLS", VS16>>, <<"BULB">>, <<"DESKTOP", VS16>>,
      <<"BOOKS">>, <<"WRENCH">> }

-----------------------------------------------------------------------------
(* Python string operations *)

\* s[i:i+len(p)] == p
StartsAt(s, i, p) ==
    /\ i + Len(p) - 1 <= Len(s)
    /\ \A k \in 1..Len(p) : s[i + k - 1] = p[k]

\* s.startswith(p)
StartsWith(s, p) == StartsAt(s, 1, p)

\* p in s, for a non-empty p
Contains(s, p) == \E i \in 1..(Len(s) - Len(p) + 1) : StartsAt(s, i, p)

\* s[:n]
Prefix(s, n) == SubSeq(s, 1, IF n < Len(s) THEN n ELSE Len(s))

\* s.strip()
Strip(s) ==
    IF \A i \in 1..Len(s) : s[i] \in Whitespace THEN <<>>
    ELSE LET first == CHOOSE i \in 1..Len(s) :
                          /\ s[i] \notin Whitespace
                          /\ \A j \in 1..(i - 1) : s[j] \in Whitespace
             last == CHOOSE i \in 1..Len(s) :
                         /\ s[i] \notin Whitespace
                         /\ \A j \in (i + 1)..Len(s) : s[j] \in Whitespace
         IN  SubSeq(s, first, last)

\* first index of the run of equal characters that position i lies in
RunStart(s, i) ==
    CHOOSE j \in 1..i :
        /\ \A k \in j..i : s[k] = s[i]
        /\ j = 1 \/ s[j - 1] # s[i]

\* The occurrences of sep that a left-to-right, non-overlapping scan takes.
\* Every separator of the scripts ('\n', '\n\n', ' ', '##', '###', '---')
\* repeats one character, so inside a run of that character the scan takes
\* the occurrences at offsets 0, len(sep), 2*len(sep), ... of the run.
Occurrences(s, sep) ==
    { i \in 1..Len(s) :
          StartsAt(s, i, sep) /\ (i - RunStart(s, i)) % Len(sep) = 0 }

\* the n-th smallest element of a set of numbers
Nth(S, n) == CHOOSE p \in S : Cardinality({ q \in S : q <= p }) = n

\* s.split(sep)
Split(s, sep) ==
    LET occ == Occurrences(s, sep)
        n == Cardinality(occ)
    IN  [ j \in 1..(n + 1) |->
              SubSeq(s,
                     IF j = 1 THEN 1 ELSE Nth(occ, j - 1) + Len(sep),
                     IF j = n + 1 THEN Len(s) ELSE Nth(occ, j) - 1) ]

\* s.splitlines(), for texts whose only line boundary is '\n'
SplitLines(s) ==
    IF s = <<>> THEN <<>>
    ELSE LET parts == Split(s, <<NL>>)
         IN  IF parts[Len(parts)] = <<>>
             THEN SubSeq(parts, 1, Len(parts) - 1)
             ELSE parts

RECURSIVE JoinRange(_, _, _, _)
\* sep.join(parts[lo..hi])
JoinRange(parts, lo, hi, sep) ==
    IF lo > hi THEN <<>>
    ELSE IF lo = hi THEN parts[lo]
    ELSE LET mid == (lo + hi) \div 2
         IN  JoinRange(parts, lo, mid, sep) \o sep
                 \o JoinRange(parts, mid + 1, hi, sep)

\* sep.join(parts)
Join(parts, sep) == JoinRange(parts, 1, Len(parts), sep)

\* s.replace(old, ''): what is left between the occurrences of old
Remove(s, old) == Join(Split(s, old), <<>>)

\* s.split(' ', 1)
SplitOnce(s) ==
    IF \E i \in 1..Len(s) : s[i] = SP
    THEN LET i == CHOOSE j \in 1..Len(s) :
                      s[j] = SP /\ \A k \in 1..(j - 1) : s[k] # SP
         IN  <<SubSeq(s, 1, i - 1), SubSeq(s, i + 1, Len(s))>>
    ELSE <<s>>

Stars(n) == [i \in 1..n |-> STAR]

RECURSIVE NonStarEnd(_, _)
\* last index of the longest run of non-'*' characters starting at j
NonStarEnd(s, j) ==
    IF j <= Len(s) /\ s[j] # STAR THEN NonStarEnd(s, j + 1) ELSE j - 1

\* Where a match of  \*{n}([^*]+)\*{n}  starting at i ends; 0 when there is
\* none.  [^*]+ is greedy and cannot give back a '*', so it takes the whole
\* run of non-'*' characters.
MatchEnd(s, i, n) ==
    IF StartsAt(s, i, Stars(n))
    THEN LET e == NonStarEnd(s, i + n)
         IN  IF e >= i + n /\ StartsAt(s, e + 1, Stars(n)) THEN e + n ELSE 0
    ELSE 0

RECURSIVE ReSubFrom(_, _, _, _)
ReSubFrom(s, i, n, k) ==
    IF i > Len(s) THEN <<>>
    ELSE LET e == MatchEnd(s, i, n)
         IN  IF e > 0
             THEN Stars(k) \o SubSeq(s, i + n, e - n) \o Stars(k)
                      \o ReSubFrom(s, e + 1, n, k)
             ELSE <<s[i]>> \o ReSubFrom(s, i + 1, n, k)

\* re.sub(r'\*{n}([^*]+)\*{n}', r'\*{k}\1\*{k}', s)
ReSub(s, n, k) == ReSubFrom(s, 1, n, k)


-----------------------------------------------------------------------------
(* Formatter of news_digest.py *)

\* any(emoji in s for emoji in emojis)
HasAny(s, emojis) == \E e \in emojis : Contains(s, e)

\* index of the first line that carries one of the emojis; 0 when none does
FirstMarked(lines, emojis) ==
    IF \E i \in 1..Len(lines) : HasAny(lines[i], emojis)
    THEN CHOOSE i \in 1..Len(lines) :
             /\ HasAny(lines[i], emojis)
             /\ \A j \in 1..(i - 1) : ~ HasAny(lines[j], emojis)
    ELSE 0

\* the three replace() calls, in the order the script applies them
NewsCleanup(t) ==
    Remove(Remove(Remove(t, <<HASH, HASH>>), <<HASH, HASH, HASH>>),
           <<DASH, DASH, DASH>>)
\* NewsCleanLine with only the first re.sub: '**X**' is stripped, '*X*' is not
NewsCleanLine_BoldOnly(line) ==
    IF HasAny(Prefix(line, 5), NewsEmoji) THEN line
    ELSE IF StartsWith(Strip(line), <<BUL>>) THEN ReSub(line, 2, 0)
    ELSE line

\* one iteration of the cleanup loop
NewsCleanLine(line) ==
    IF HasAny(Prefix(line, 5), NewsEmoji) THEN line
    ELSE IF StartsWith(Strip(line), <<BUL>>)
         THEN ReSub(ReSub(line, 2, 0), 1, 0)
         ELSE line

NewsCleanLines(t) ==
    LET lines == Split(t, <<NL>>)
    IN  Join([i \in 1..Len(lines) |-> NewsCleanLine(lines[i])], <<NL>>)

\* keep only the lines from the first emoji line onwards
NewsRemoveIntro(t) ==
    LET lines == Split(t, <<NL>>)
        k == FirstMarked(lines, NewsEmoji)
    IN  IF k = 0 THEN <<>>
        ELSE Strip(Join(SubSeq(lines, k, Len(lines)), <<NL>>))

NewsFormat(t) == NewsRemoveIntro(NewsCleanLines(NewsCleanup(t)))

-----------------------------------------------------------------------------
(* Formatter of tech_deepdive.py *)

TechCleanup(t) ==
    Remove(Remove(Remove(t, <<DASH, DASH, DASH>>), <<HASH, HASH>>),
           <<HASH, HASH, HASH>>)
\* TechHeaderLine without the re.sub
TechHeaderLine_NoSub(s) ==
    IF ~ Contains(s, <<STAR>>)
    THEN LET parts == SplitOnce(s)
         IN  IF Len(parts) = 2
             THEN parts[1] \o <<SP, STAR>> \o parts[2] \o <<STAR>>
             ELSE s
    ELSE s

\* the header branch of the cleanup loop
TechHeaderLine(s) ==
    LET s1 == ReSub(s, 2, 1)
    IN  IF ~ Contains(s1, <<STAR>>)
        THEN LET parts == SplitOnce(s1)
             IN  IF Len(parts) = 2
                 THEN parts[1] \o <<SP, STAR>> \o parts[2] \o <<STAR>>
                 ELSE s1
        ELSE s1

\* one iteration of the cleanup loop
TechCleanLine(line) ==
    LET s == Strip(line)
    IN  IF s = <<>> THEN s
        ELSE IF HasAny(s, section_emoji) THEN TechHeaderLine(s)
        ELSE IF StartsWith(s, <<BUL>>) THEN ReSub(ReSub(s, 2, 0), 1, 0)
        ELSE s

TechCleanLines(t) ==
    LET lines == SplitLines(t)
    IN  Strip(Join([i \in 1..Len(lines) |-> TechCleanLine(lines[i])], <<NL>>))

TechRemoveIntro(t) ==
    LET lines == Split(t, <<NL>>)
        k == FirstMarked(lines, section_emoji)
    IN  IF k = 0 THEN <<>>
        ELSE Strip(Join(SubSeq(lines, k, Len(lines)), <<NL>>))

TechFormat(t) == TechRemoveIntro(TechCleanLines(TechCleanup(t)))

-----------------------------------------------------------------------------
(* Slack blocks.  The fixed texts (title, greeting, footer, truncation     *)
(* notice) are one token each.                                             *)

Header(t) == [type |-> "header", text |-> t]
Section(t) == [type |-> "section", text |-> t]
Divider == [type |-> "divider", text |-> <<>>]
Context(t) == [type |-> "context", text |-> t]

NewsPreamble ==
    << Header(<<"AI/Tech Daily Digest">>),
       Section(<<"Your daily AI digest is ready!">>) >>

NewsFooter == << Divider, Context(<<"_Powered by Gemini 2.5_">>) >>

NewsTruncation == Context(<<"_Content truncated due to length..._">>)

TechPreamble ==
    << Header(<<"Weekly AI Tech Deep Dive">>),
       Section(<<"Your weekly tech deep dive is ready!">>),
       Divider >>

TechFooter == << Divider, Context(<<"_Powered by Gemini_">>) >>

TechTruncation == Context(<<"_(truncated)_">>)

-----------------------------------------------------------------------------
(* Chunker and block emission of news_digest.py *)
RECURSIVE NewsAccumulate_ParagraphOnly(_, _, _, _)
\* NewsAccumulate with the buffer's own length left out of the test
NewsAccumulate_ParagraphOnly(paras, i, current_chunk, L) ==
    IF i > Len(paras)
    THEN IF current_chunk # <<>> THEN <<current_chunk>> ELSE <<>>
    ELSE IF Len(paras[i]) + 2 > L
         THEN (IF current_chunk # <<>> THEN <<current_chunk>> ELSE <<>>)
                  \o NewsAccumulate_ParagraphOnly(paras, i + 1, paras[i] \o Sep, L)
         ELSE NewsAccumulate_ParagraphOnly(paras, i + 1,
                                           current_chunk \o paras[i] \o Sep, L)

RECURSIVE NewsAccumulate(_, _, _, _)
\* The greedy loop over the paragraphs: the values current_chunk has each
\* time a chunk is appended (before .strip()).
NewsAccumulate(paras, i, current_chunk, L) ==
    IF i > Len(paras)
    THEN IF current_chunk # <<>> THEN <<current_chunk>> ELSE <<>>
    ELSE IF Len(current_chunk) + Len(paras[i]) + 2 > L
         THEN (IF current_chunk # <<>> THEN <<current_chunk>> ELSE <<>>)
                  \o NewsAccumulate(paras, i + 1, paras[i] \o Sep, L)
         ELSE NewsAccumulate(paras, i + 1, current_chunk \o paras[i] \o Sep, L)

NewsBuffers(text, L) == NewsAccumulate(Split(text, Sep), 1, <<>>, L)

\* chunks
NewsChunks(text, L) ==
    LET bufs == NewsBuffers(text, L)
    IN  [i \in 1..Len(bufs) |-> Strip(bufs[i])]
RECURSIVE NewsChunkBlocks_DividerAlways(_, _)
\* NewsChunkBlocks without the test  i < len(chunks) - 1
NewsChunkBlocks_DividerAlways(chunks, i) ==
    IF i > Len(chunks) THEN <<>>
    ELSE (IF chunks[i] # <<>> THEN <<Section(chunks[i]), Divider>> ELSE <<>>)
         \o NewsChunkBlocks_DividerAlways(chunks, i + 1)

RECURSIVE NewsChunkBlocks(_, _)
\* for i, chunk in enumerate(chunks): ...   (i counts from 1 here)
NewsChunkBlocks(chunks, i) ==
    IF i > Len(chunks) THEN <<>>
    ELSE (IF chunks[i] # <<>>
          THEN <<Section(chunks[i])>>
                   \o (IF i < Len(chunks) THEN <<Divider>> ELSE <<>>)
          ELSE <<>>)
         \o NewsChunkBlocks(chunks, i + 1)

NewsDigestBlocks(text, L) ==
    IF Len(text) <= L THEN <<Section(text)>>
    ELSE NewsChunkBlocks(NewsChunks(text, L), 1)

NewsAssemble(dblocks) == NewsPreamble \o dblocks \o NewsFooter
\* NewsCap keeping one block too many
NewsCap_KeepFifty(b) ==
    IF Len(b) > 50 THEN SubSeq(b, 1, 50) \o <<NewsTruncation>> ELSE b

NewsCap(b) ==
    IF Len(b) > 50 THEN SubSeq(b, 1, 49) \o <<NewsTruncation>> ELSE b

-----------------------------------------------------------------------------
(* Chunker and block emission of tech_deepdive.py *)
RECURSIVE TechAccumulate_DropLast(_, _, _, _)
\* TechAccumulate without the  if chunk:  after the loop
TechAccumulate_DropLast(paras, i, chunk, L) ==
    IF i > Len(paras) THEN <<>>
    ELSE IF Len(chunk) + Len(paras[i]) + 2 > L
         THEN (IF chunk # <<>> THEN <<chunk>> ELSE <<>>)
                  \o TechAccumulate_DropLast(paras, i + 1, paras[i] \o Sep, L)
         ELSE TechAccumulate_DropLast(paras, i + 1, chunk \o paras[i] \o Sep, L)

RECURSIVE TechAccumulate_CloseAtLimit(_, _, _, _)
\* TechAccumulate with >= in place of >
TechAccumulate_CloseAtLimit(paras, i, chunk, L) ==
    IF i > Len(paras)
    THEN IF chunk # <<>> THEN <<chunk>> ELSE <<>>
    ELSE IF Len(chunk) + Len(paras[i]) + 2 >= L
         THEN (IF chunk # <<>> THEN <<chunk>> ELSE <<>>)
                  \o TechAccumulate_CloseAtLimit(paras, i + 1, paras[i] \o Sep, L)
         ELSE TechAccumulate_CloseAtLimit(paras, i + 1, chunk \o paras[i] \o Sep, L)

RECURSIVE TechAccumulate(_, _, _, _)
\* The greedy loop over the paragraphs: the values chunk has each time a
\* Section block is appended (before .strip()).
TechAccumulate(paras, i, chunk, L) ==
    IF i > Len(paras)
    THEN IF chunk # <<>> THEN <<chunk>> ELSE <<>>
    ELSE IF Len(chunk) + Len(paras[i]) + 2 > L
         THEN (IF chunk # <<>> THEN <<chunk>> ELSE <<>>)
                  \o TechAccumulate(paras, i + 1, paras[i] \o Sep, L)
         ELSE TechAccumulate(paras, i + 1, chunk \o paras[i] \o Sep, L)

TechBuffers(text, L) == TechAccumulate(Split(text, Sep), 1, <<>>, L)

RECURSIVE TechChunkBlocks(_, _)
\* A chunk closed inside the loop appends its Section and a Divider; the
\* one left over after the loop appends its Section alone.
TechChunkBlocks(bufs, i) ==
    IF i > Len(bufs) THEN <<>>
    ELSE <<Section(Strip(bufs[i]))>>
             \o (IF i < Len(bufs) THEN <<Divider>> ELSE <<>>)
             \o TechChunkBlocks(bufs, i + 1)

TechDigestBlocks(text, L) ==
    IF Len(text) <= L THEN <<Section(text)>>
    ELSE TechChunkBlocks(TechBuffers(text, L), 1)

TechCap(b) ==
    IF Len(b) > 50 THEN SubSeq(b, 1, 49) \o <<TechTruncation>> ELSE b

-----------------------------------------------------------------------------
(* Responses of the generation call *)

SeqsUpTo(S, n) == UNION { [1..k -> S] : k \in 1..n }

\* a section marker the script recognizes
Marker(sc) == IF sc = "news" THEN <<"RI_U", "RI_S">> ELSE <<"MICROSCOPE">>

\* lines a response is built from
LinePool(sc) ==
    LET m == Marker(sc)
    IN  { <<>>,
          <<"i">>,
          m \o <<SP, STAR, STAR, "U", STAR, STAR>>,
          m \o <<SP, "U">>,
          <<BUL, SP, STAR, STAR, "I", STAR, STAR, SP, "d">>,
          <<BUL, SP, STAR, "I", STAR>>,
          <<BUL, SP, STAR, "I">>,
          <<BUL, SP>> \o m \o <<SP, STAR, STAR, "I", STAR, STAR>>,
          <<BUL, STAR, STAR, "a", STAR, "b", STAR>> }

LineTexts(sc) ==
    { Join(ls, <<NL>>) : ls \in SeqsUpTo(LinePool(sc), MaxLines) }

\* a marker followed by a run of '#' and '-' characters
NoiseTexts(sc) ==
    { Marker(sc) \o x : x \in SeqsUpTo({HASH, DASH}, MaxNoise) }

ParaPool ==
    { <<"a">>, <<"b", "b", "b", "b", "b", "b", "b", "b">>, <<>>, <<NL, "c">>,
      <<"d", SP>> }

\* a marker followed by paragraphs joined with blank lines
ParaTexts(sc) ==
    { Marker(sc) \o Join(ps, Sep) : ps \in SeqsUpTo(ParaPool, MaxParas) }

\* a marker paragraph followed by n one-letter paragraphs
LongText(sc, n) == Marker(sc) \o Join([i \in 1..(n + 1) |-> IF i = 1 THEN <<>> ELSE <<"a">>], Sep)

LongTexts(sc) == { LongText(sc, n) : n \in 0..MaxLong }

\* "Intro fluff\n\n<marker> **USA Tech**\n\n• **Item** detail"
Scenario(m) ==
    <<"I", "n", "t", "r", "o", SP, "f", "l", "u", "f", "f", NL, NL>>
        \o m \o <<SP, STAR, STAR, "U", "S", "A", SP, "T", "e", "c", "h", STAR, STAR, NL, NL>>
        \o <<BUL, SP, STAR, STAR, "I", "t", "e", "m", STAR, STAR, SP, "d", "e", "t", "a", "i", "l">>

ScenarioTexts == { Scenario(<<"RI_U", "RI_S">>), Scenario(<<"MICROSCOPE">>) }

Responses(sc) ==
    LineTexts(sc) \cup NoiseTexts(sc) \cup ParaTexts(sc) \cup LongTexts(sc)
        \cup ScenarioTexts

-----------------------------------------------------------------------------
(* The run of a script *)

Init ==
    /\ script \in {"news", "tech"}
    /\ max_length \in 1..MaxLimit
    /\ response_text \in Responses(script)
    /\ digest_text = <<>>
    /\ digest_blocks = <<>>
    /\ blocks = <<>>
    /\ posted = <<>>
    /\ pc = "generate"
    /\ attempt = 0
    /\ calls = <<>>
    /\ posts = <<>>
    /\ exc = "none"

\* digest_text = response.text.strip()
Generate ==
    /\ pc = "generate"
    /\ digest_text' = Strip(response_text)
    /\ pc' = "format"
    /\ UNCHANGED <<script, max_length, response_text, digest_blocks, blocks, posted>>
    /\ UNCHANGED protocol

\* markdown cleanup, bullet/header cleanup, intro/outro removal
Format ==
    /\ pc = "format"
    /\ digest_text' = IF script = "news" THEN NewsFormat(digest_text)
                      ELSE TechFormat(digest_text)
    /\ pc' = "chunk"
    /\ UNCHANGED <<script, max_length, response_text, digest_blocks, blocks, posted>>
    /\ UNCHANGED protocol

\* news_digest.py fills digest_blocks; tech_deepdive.py appends the chunk
\* blocks to the preamble already in blocks
Chunk ==
    /\ pc = "chunk"
    /\ IF script = "news"
       THEN /\ digest_blocks' = NewsDigestBlocks(digest_text, max_length)
            /\ blocks' = blocks
       ELSE /\ digest_blocks' = digest_blocks
            /\ blocks' = TechPreamble \o TechDigestBlocks(digest_text, max_length)
    /\ pc' = "assemble"
    /\ UNCHANGED <<script, max_length, response_text, digest_text, posted>>
    /\ UNCHANGED protocol

\* preamble + digest blocks + footer
Assemble ==
    /\ pc = "assemble"
    /\ blocks' = IF script = "news" THEN NewsAssemble(digest_blocks)
                 ELSE blocks \o TechFooter
    /\ pc' = "cap"
    /\ UNCHANGED <<script, max_length, response_text, digest_text, digest_blocks, posted>>
    /\ UNCHANGED protocol

\* Slack takes at most 50 blocks
Cap ==
    /\ pc = "cap"
    /\ blocks' = IF script = "news" THEN NewsCap(blocks) ELSE TechCap(blocks)
    /\ pc' = "post"
    /\ UNCHANGED <<script, max_length, response_text, digest_text, digest_blocks, posted>>
    /\ UNCHANGED protocol

\* requests.post(..., json={"blocks": blocks}); raise_for_status() passes
PostOk ==
    /\ pc = "post"
    /\ posted' = blocks
    /\ pc' = "done"
    /\ UNCHANGED <<script, max_length, response_text, digest_text, digest_blocks, blocks>>
    /\ UNCHANGED protocol

\* the POST or raise_for_status() raises
PostFail ==
    /\ pc = "post"
    /\ posted' = blocks
    /\ pc' = "post_failed"
    /\ UNCHANGED <<script, max_length, response_text, digest_text, digest_blocks, blocks>>
    /\ UNCHANGED protocol

Next == Generate \/ Format \/ Chunk \/ Assemble \/ Cap \/ PostOk \/ PostFail

Spec == Init /\ [][Next]_vars

-----------------------------------------------------------------------------
(* The run with its collaborators: the generation calls and the POSTs *)

\* tech_deepdive.py: max_retries = 3
max_retries == 3

\* tech_deepdive.py: section_headers = ['🔬', '🛠️', '💡', '🖥️', '📚', '🔧']
section_headers == section_emoji

\* [emoji for emoji in section_headers if emoji not in digest_text]
missing_sections(text) == { emoji \in section_headers : ~ Contains(text, emoji) }

\* a mutant of TechAfterText: the loop never retries on a missing section
TechAfterText_NeverRetry(att, text) == "break"

\* tech_deepdive.py, after digest_text is set: `continue` while sections are
\* missing and attempts are left, `break` otherwise
TechAfterText(att, text) ==
    IF missing_sections(text) # {} /\ att < max_retries - 1 THEN "continue"
    ELSE "break"

\* tech_deepdive.py, except Exception: `continue` while attempts are left,
\* `raise` on the last one
TechAfterRaise(att) == IF att < max_retries - 1 THEN "continue" ELSE "raise"

\* the six markers, one per line
AllSections ==
    <<"MICROSCOPE", NL, "TOOLS", VS16, NL, "BULB", NL, "DESKTOP", VS16, NL,
      "BOOKS", NL, "WRENCH">>

\* response.text of a generation call in a run with collaborators
RunResponses ==
    { <<>>,
      <<SP, "i", NL>>,
      <<"MICROSCOPE", SP, "a">>,
      <<"RI_U", "RI_S", SP, "a", NL, NL, "b">>,
      <<"MICROSCOPE", NL, "TOOLS", NL, "BULB", NL, "DESKTOP", NL, "BOOKS", NL, "WRENCH">>,
      AllSections }

\* how a requests.post call ends: "ok" is a response with a success status,
\* "http_error" a response with an error status (raise_for_status() raises
\* HTTPError), "error" an exception raised by requests.post itself
PostResults == {"ok", "http_error", "error"}

\* a mutant of NewsAfterFallback: a fallback that got through ends the run
NewsAfterFallback_DoneOnSuccess(result) ==
    IF result = "ok" THEN "done" ELSE "except"

\* news_digest.py: try / except requests.exceptions.HTTPError around the POST
NewsAfterPrimary(result) ==
    CASE result = "ok" -> "done"
      [] result = "http_error" -> "fallback"
      [] OTHER -> "except"

\* news_digest.py: res2.raise_for_status() passes and the bare `raise`
\* re-raises, or the fallback POST raises; both leave through
\* `except Exception`
NewsAfterFallback(result) == "except"

\* tech_deepdive.py: try / except Exception around the POST
TechAfterPrimary(result) == IF result = "ok" THEN "done" ELSE "except"

InitRun ==
    /\ script \in {"news", "tech"}
    /\ max_length = MaxLimit
    /\ response_text = <<>>
    /\ digest_text = <<>>
    /\ digest_blocks = <<>>
    /\ blocks = <<>>
    /\ posted = <<>>
    /\ pc = "call"
    /\ attempt = 0
    /\ calls = <<>>
    /\ posts = <<>>
    /\ exc = "none"

\* tech_deepdive.py: one iteration of the retry loop in which
\* generate_content returns; (response.text or "").strip()
TechCallReturns ==
    /\ pc = "call"
    /\ script = "tech"
    /\ \E r \in RunResponses :
         LET text == Strip(r)
         IN  /\ response_text' = r
             /\ digest_text' = text
             /\ calls' = Append(calls, [raised |-> FALSE, text |-> r])
             /\ IF TechAfterText(attempt, text) = "continue"
                THEN attempt' = attempt + 1 /\ pc' = "call"
                ELSE attempt' = attempt /\ pc' = "format"
    /\ UNCHANGED <<script, max_length, digest_blocks, blocks, posted, posts, exc>>

\* tech_deepdive.py: one iteration of the retry loop in which
\* generate_content raises
TechCallRaises ==
    /\ pc = "call"
    /\ script = "tech"
    /\ calls' = Append(calls, [raised |-> TRUE, text |-> <<>>])
    /\ IF TechAfterRaise(attempt) = "continue"
       THEN attempt' = attempt + 1 /\ pc' = "call" /\ exc' = exc
       ELSE attempt' = attempt /\ pc' = "raised" /\ exc' = "generation"
    /\ UNCHANGED <<script, max_length, response_text, digest_text,
                   digest_blocks, blocks, posted, posts>>

\* news_digest.py: generate_content returns; response.text.strip()
NewsCallReturns ==
    /\ pc = "call"
    /\ script = "news"
    /\ \E r \in RunResponses :
         /\ response_text' = r
         /\ digest_text' = Strip(r)
         /\ calls' = Append(calls, [raised |-> FALSE, text |-> r])
    /\ pc' = "format"
    /\ UNCHANGED <<script, max_length, digest_blocks, blocks, posted,
                   attempt, posts, exc>>

\* news_digest.py: generate_content or response.text raises, inside the
\* script's try
NewsCallRaises ==
    /\ pc = "call"
    /\ script = "news"
    /\ calls' = Append(calls, [raised |-> TRUE, text |-> <<>>])
    /\ exc' = "generation"
    /\ pc' = "except"
    /\ UNCHANGED <<script, max_length, response_text, digest_text,
                   digest_blocks, blocks, posted, attempt, posts>>

\* the POST of the digest, followed by raise_for_status()
PrimaryPost ==
    /\ pc = "post"
    /\ \E result \in PostResults :
         /\ posts' = Append(posts, [kind |-> "primary", result |-> result])
         /\ pc' = IF script = "news" THEN NewsAfterPrimary(result)
                  ELSE TechAfterPrimary(result)
         /\ exc' = IF result = "ok" THEN exc ELSE result
    /\ posted' = blocks
    /\ UNCHANGED <<script, max_length, response_text, digest_text,
                   digest_blocks, blocks, attempt, calls>>

\* news_digest.py, except HTTPError: the POST of fallback_blocks, followed
\* by res2.raise_for_status() and the bare `raise`
FallbackPost ==
    /\ pc = "fallback"
    /\ \E result \in PostResults :
         /\ posts' = Append(posts, [kind |-> "fallback", result |-> result])
         /\ pc' = NewsAfterFallback(result)
         /\ exc' = IF result = "ok" THEN exc ELSE result
    /\ UNCHANGED <<script, max_length, response_text, digest_text,
                   digest_blocks, blocks, posted, attempt, calls>>

\* the error handler: the POST of the failure notice inside try / except:
\* pass (no raise_for_status()), then the bare `raise`
ErrorNotice ==
    /\ pc = "except"
    /\ \E result \in PostResults :
         posts' = Append(posts, [kind |-> "error_notice", result |-> result])
    /\ pc' = "raised"
    /\ UNCHANGED <<script, max_length, response_text, digest_text,
                   digest_blocks, blocks, posted, attempt, calls, exc>>

NextRun ==
    \/ TechCallReturns \/ TechCallRaises \/ NewsCallReturns \/ NewsCallRaises
    \/ Format \/ Chunk \/ Assemble \/ Cap
    \/ PrimaryPost \/ FallbackPost \/ ErrorNotice

SpecRun == InitRun /\ [][NextRun]_vars

\* an exception handler runs to its end: the POST it makes returns or
\* raises (timeout=30), and the handler goes on either way
FairSpecRun == SpecRun /\ WF_vars(FallbackPost) /\ WF_vars(ErrorNotice)

-----------------------------------------------------------------------------
(* What the properties below read off a state *)

Truncation == IF script = "news" THEN NewsTruncation ELSE TechTruncation
Preamble == IF script = "news" THEN NewsPreamble ELSE TechPreamble
Footer == IF script = "news" THEN NewsFooter ELSE TechFooter

\* the blocks the chunk stage produced, once it has run (pc = "assemble")
ChunkStageBlocks ==
    IF script = "news" THEN digest_blocks
    ELSE SubSeq(blocks, Len(TechPreamble) + 1, Len(blocks))

\* the blocks between preamble and footer of the assembled list (pc = "cap")
DigestRegion == SubSeq(blocks, Len(Preamble) + 1, Len(blocks) - Len(Footer))

IsSection(b) == b.type = "section"

SectionTexts(bs) ==
    LET ss == SelectSeq(bs, IsSection)
    IN  [i \in 1..Len(ss) |-> ss[i].text]

\* the chunks the chunk stage emitted, in emission order
EmittedChunks == SectionTexts(ChunkStageBlocks)

\* the untrimmed buffers of the greedy loop on the formatted text
Buffers ==
    IF script = "news" THEN NewsBuffers(digest_text, max_length)
    ELSE TechBuffers(digest_text, max_length)

NonEmpty(t) == t # <<>>

\* the paragraphs that are not all whitespace, each trimmed
NonBlankStripped(ps) ==
    SelectSeq([i \in 1..Len(ps) |-> Strip(ps[i])], NonEmpty)

Paragraphs(t) == Split(t, Sep)

-----------------------------------------------------------------------------
(* C1 *)

\* C1: the block list handed to the primary POST has at most 50 blocks; when
\* the assembled list is longer than 50, the capped list has exactly 50
\* blocks, its first 49 are the first 49 assembled blocks in order, and its
\* 50th is the Context block with the truncation text.
C1_BlockCap ==
    [][ /\ pc = "cap" =>
            /\ Len(blocks') <= 50
            /\ Len(blocks) > 50 =>
                   /\ Len(blocks') = 50
                   /\ SubSeq(blocks', 1, 49) = SubSeq(blocks, 1, 49)
                   /\ blocks'[50] = Truncation
        /\ pc = "post" => (posted' = blocks /\ Len(posted') <= 50)
      ]_vars

C1_Witness ==
    /\ pc = "done"
    /\ Len(posted) = 50
    /\ posted[50] = Truncation
    /\ posted[49].type = "section"

-----------------------------------------------------------------------------
(* C2 *)

\* C2: every emitted chunk is at most max_length long, except a chunk that is
\* one single paragraph (trimmed) whose own length exceeds max_length; a chunk
\* longer than max_length never holds two paragraphs.
C2_ChunkSizeBound ==
    pc = "assemble" =>
        LET chunks == EmittedChunks
            ps == Paragraphs(digest_text)
        IN  \A n \in 1..Len(chunks) :
                \/ Len(chunks[n]) <= max_length
                \/ /\ \E i \in 1..Len(ps) :
                          Len(ps[i]) > max_length /\ chunks[n] = Strip(ps[i])
                   /\ ~ Contains(chunks[n], Sep)

\* a run that emits an over-long chunk and a chunk of several paragraphs
C2_Witness ==
    /\ pc = "assemble"
    /\ LET chunks == EmittedChunks
       IN  /\ \E n \in 1..Len(chunks) : Len(chunks[n]) > max_length
           /\ \E n \in 1..Len(chunks) : Contains(chunks[n], Sep)

-----------------------------------------------------------------------------
(* C3 *)

\* C3: joining the emitted chunks in order with blank lines gives back the
\* formatted text up to whitespace trimmed at chunk boundaries: the two have
\* the same non-blank paragraphs (each trimmed), in the same order, none
\* dropped, duplicated or reordered.
C3_RoundTrip ==
    pc = "assemble" =>
        NonBlankStripped(Paragraphs(Join(EmittedChunks, Sep)))
            = NonBlankStripped(Paragraphs(digest_text))

\* a split run whose rejoined chunks differ from the text by trimmed whitespace
C3_Witness ==
    /\ pc = "assemble"
    /\ LET chunks == EmittedChunks
       IN  /\ Len(chunks) >= 2
           /\ Join(chunks, Sep) # digest_text
           /\ \E n \in 1..Len(chunks) : Contains(chunks[n], Sep)

-----------------------------------------------------------------------------
(* C8 *)

\* C8: in the assembled list, before the cap, the blocks between preamble and
\* footer are Section, Divider, Section, ..., Section: one Divider between
\* each two consecutive chunk Sections, none after the last; and no two
\* Dividers of the whole list are adjacent.
C8_DividerPlacement ==
    pc = "cap" =>
        LET region == DigestRegion
        IN  /\ Len(region) % 2 = 1
            /\ \A i \in 1..Len(region) :
                   region[i].type = (IF i % 2 = 1 THEN "section" ELSE "divider")
            /\ \A i \in 1..(Len(blocks) - 1) :
                   ~ (blocks[i].type = "divider" /\ blocks[i + 1].type = "divider")

\* a run with at least three chunk Sections
C8_Witness ==
    /\ pc = "cap"
    /\ LET region == DigestRegion
       IN  /\ Len(region) >= 5
           /\ region[2] = Divider
           /\ region[Len(region)].type = "section"

-----------------------------------------------------------------------------
(* C9 *)

\* C9 as claimed: for every two consecutive chunks, the earlier chunk joined
\* by one separator to the first paragraph of the later chunk is longer than
\* max_length.
C9_ChunksMaximal ==
    pc = "assemble" =>
        LET chunks == EmittedChunks
        IN  \A n \in 1..(Len(chunks) - 1) :
                Len(chunks[n]) + Len(Sep) + Len(Paragraphs(chunks[n + 1])[1])
                    > max_length

\* C9 (amended): the emitted chunks are the trimmed buffers of the greedy
\* loop, and for every two consecutive buffers, the earlier buffer untrimmed
\* (each paragraph followed by its separator) plus the first paragraph of the
\* later one plus one more separator is longer than max_length.
C9_ClosedOnlyWhenBufferOverflows ==
    (pc = "assemble" /\ Len(digest_text) > max_length) =>
        LET bufs == Buffers
        IN  /\ EmittedChunks =
                   (IF script = "news" THEN NonBlankStripped(bufs)
                    ELSE [n \in 1..Len(bufs) |-> Strip(bufs[n])])
            /\ \A n \in 1..(Len(bufs) - 1) :
                   Len(bufs[n]) + Len(Paragraphs(bufs[n + 1])[1]) + Len(Sep)
                       > max_length

\* a chunk closed although the next paragraph would still have fit
C9_Witness ==
    /\ pc = "assemble"
    /\ LET chunks == EmittedChunks
       IN  \E n \in 1..(Len(chunks) - 1) :
               Len(chunks[n]) + Len(Sep) + Len(Paragraphs(chunks[n + 1])[1])
                   <= max_length

-----------------------------------------------------------------------------
(* What the Formatter properties read off a state *)

\* the section markers the running script recognizes
Emojis == IF script = "news" THEN NewsEmoji ELSE section_emoji

\* the lines the cleanup loop iterates over: the response, trimmed, with
\* '##', '###' and '---' removed (tech_deepdive.py trims every line)
InputLines ==
    IF script = "news"
    THEN Split(NewsCleanup(Strip(response_text)), <<NL>>)
    ELSE LET ls == SplitLines(TechCleanup(Strip(response_text)))
         IN  [i \in 1..Len(ls) |-> Strip(ls[i])]

\* the lines of the Formatter's result (pc = "chunk")
OutputLines == Split(digest_text, <<NL>>)

\* Output line j comes from input line first + j - 1, where first is the
\* index of the first marker line: the result is the cleaned lines from that
\* line on, trimmed as one text.
InputLineOf(inl, first, j) == inl[first + j - 1]

\* what the Formatter's other rules make of the response when the
\* intro/outro removal is left out
WithoutIntroRemoval ==
    IF script = "news"
    THEN Strip(NewsCleanLines(NewsCleanup(Strip(response_text))))
    ELSE Strip(TechCleanLines(TechCleanup(Strip(response_text))))

IsBulletLine(l) == StartsWith(Strip(l), <<BUL>>)

RECURSIVE SpansFrom(_, _, _)
\* From position i on, every '*' of s belongs to a span '**X**' (or, when
\* single is allowed, '*X*') with X non-empty and free of '*', and no span
\* is directly followed by another '*'.
SpansFrom(s, i, single) ==
    IF i > Len(s) THEN TRUE
    ELSE IF s[i] # STAR THEN SpansFrom(s, i + 1, single)
    ELSE LET e == IF MatchEnd(s, i, 2) > 0 THEN MatchEnd(s, i, 2)
                  ELSE IF single THEN MatchEnd(s, i, 1)
                  ELSE 0
         IN  /\ e > 0
             /\ e = Len(s) \/ s[e + 1] # STAR
             /\ SpansFrom(s, e + 1, single)

\* the emphasis markup of s is well-formed '**X**' and '*X*' spans
WellFormedSpans(s) == SpansFrom(s, 1, TRUE)

\* the emphasis markup of s is well-formed '**X**' spans, at least one
DoubleSpansOnly(s) == SpansFrom(s, 1, FALSE) /\ Contains(s, <<STAR>>)

\* s with every '**' replaced by '*'
OneLayer(s) == Join(Split(s, <<STAR, STAR>>), <<STAR>>)

\* the scenario's result with one emphasis layer on the header
ScenarioSingle(m) ==
    m \o <<SP, STAR, "U", "S", "A", SP, "T", "e", "c", "h", STAR, NL, NL>>
      \o <<BUL, SP, "I", "t", "e", "m", SP, "d", "e", "t", "a", "i", "l">>

\* the scenario's result with the header as written
ScenarioDouble(m) ==
    m \o <<SP, STAR, STAR, "U", "S", "A", SP, "T", "e", "c", "h", STAR, STAR, NL, NL>>
      \o <<BUL, SP, "I", "t", "e", "m", SP, "d", "e", "t", "a", "i", "l">>

-----------------------------------------------------------------------------
(* C4 *)

\* C4: when no line of the response carries a recognized section marker, the
\* Formatter returns the text as its other rules leave it (noise removal,
\* line cleanup, trimming): nothing is dropped for want of a marker.
C4_PassThroughWithoutMarker ==
    (pc = "chunk" /\ ~ HasAny(response_text, Emojis)) =>
        digest_text = WithoutIntroRemoval

-----------------------------------------------------------------------------
(* C5 *)

\* C5: for the empty response the Formatter returns the empty text, the
\* chunk stage emits no chunk, and the assembled list is the preamble
\* followed by the footer.
C5_EmptyInput ==
    response_text = <<>> =>
        /\ pc = "chunk" => digest_text = <<>>
        /\ pc = "assemble" => EmittedChunks = <<>>
        /\ pc = "cap" => blocks = Preamble \o Footer

-----------------------------------------------------------------------------
(* C6 *)

-----------------------------------------------------------------------------
(* C7 *)

-----------------------------------------------------------------------------
(* C10 *)

\* C10: the Formatter's result contains neither '##' (so no '###' either)
\* nor '---'.
C10_NoStructuralNoise ==
    pc = "chunk" =>
        /\ ~ Contains(digest_text, <<HASH, HASH>>)
        /\ ~ Contains(digest_text, <<DASH, DASH, DASH>>)

-----------------------------------------------------------------------------
(* C11 *)

\* the last generation call made
LastCall == calls[Len(calls)]

\* text lacks at least one of the six section markers
LacksMarker(text) == \E emoji \in section_emoji : ~ Contains(text, emoji)

\* positions of tech_deepdive.py past the retry loop, text in hand
PastLoop ==
    \/ pc \in {"format", "chunk", "assemble", "cap", "post", "done", "except"}
    \/ pc = "raised" /\ posts # <<>>

\* C11: in tech_deepdive.py the model is called at least once and at most 3
\* times; a further call follows only a call that raised or whose response
\* lacked a section marker; the text handed to the formatter is the text of
\* the last call made, and it lacks a marker only if that call was the third;
\* when the third call raises, the exception propagates and nothing is POSTed.
C11_RetryProtocol ==
    script = "tech" =>
        /\ Len(calls) <= 3
        /\ pc # "call" => Len(calls) >= 1
        /\ \A i \in 2..Len(calls) :
              calls[i - 1].raised \/ LacksMarker(calls[i - 1].text)
        /\ PastLoop =>
              /\ ~ LastCall.raised
              /\ response_text = LastCall.text
              /\ LacksMarker(LastCall.text) => Len(calls) = 3
        /\ pc = "format" => digest_text = Strip(LastCall.text)
        /\ (Len(calls) = 3 /\ calls[3].raised) =>
              /\ pc = "raised"
              /\ exc = "generation"
              /\ posts = <<>>

\* the first call raised, the second and the third lacked a marker, and the
\* third one's text is handed to the formatter
C11_Witness ==
    /\ script = "tech"
    /\ pc = "format"
    /\ Len(calls) = 3
    /\ calls[1].raised
    /\ ~ calls[2].raised /\ LacksMarker(calls[2].text)
    /\ ~ calls[3].raised /\ LacksMarker(calls[3].text)
    /\ digest_text = <<"MICROSCOPE", SP, "a">>

-----------------------------------------------------------------------------
(* C12 *)

\* the POST of the digest was made and did not succeed
PrimaryFailed ==
    posts # <<>> /\ posts[1].kind = "primary" /\ posts[1].result # "ok"

\* the POSTs of one kind made so far
PostsOf(kind) == SelectSeq(posts, LAMBDA p : p.kind = kind)

\* what holds of every state of a run as to delivery
DeliveryNotMasked ==
    /\ pc = "done" => posts = <<[kind |-> "primary", result |-> "ok"]>>
    /\ PrimaryFailed =>
          /\ pc \in {"fallback", "except", "raised"}
          /\ exc # "none"
          /\ Len(PostsOf("error_notice")) <= 1
          /\ pc = "raised" =>
                Len(PostsOf("fallback")) =
                    IF script = "news" /\ posts[1].result = "http_error"
                    THEN 1 ELSE 0
          /\ pc # "raised" => Len(PostsOf("error_notice")) = 0
          /\ Len(PostsOf("fallback")) > 0 =>
                script = "news" /\ posts[1].result = "http_error"

\* C12: in both scripts the run is "done" only if the POST of the digest
\* succeeded; once that POST has failed the run ends by raising, after at
\* most one error-notice POST whichever way that POST ends, and in
\* news_digest.py after exactly one fallback POST when the failure was an
\* HTTP status error and after none otherwise; no later POST that gets
\* through makes the run "done".
C12_FailureNeverMasked ==
    /\ []DeliveryNotMasked
    /\ PrimaryFailed ~> (pc = "raised" /\ exc # "none")

\* news_digest.py: the digest POST met an HTTP status error, the fallback
\* got through, the error notice did not, and the run ended by raising
C12_Witness ==
    /\ script = "news"
    /\ pc = "raised"
    /\ exc = "http_error"
    /\ posts = << [kind |-> "primary", result |-> "http_error"],
                  [kind |-> "fallback", result |-> "ok"],
                  [kind |-> "error_notice", result |-> "error"] >>

=============================================================================
